---------------------------- MODULE Spec2Model ----------------------------
(***************************************************************************)
(* Model of audio_trimmer.py: parse_timestamp, format_duration, trim_audio *)
(* and the interactive flow of main.                                       *)
(*                                                                         *)
(* Texts are sequences of one-character strings.  Python floats are IEEE   *)
(* binary64 values; a non-negative one is modelled exactly as a record     *)
(* [ip, fr]: ip is the integer part and fr the binary fraction, most       *)
(* significant bit first, and every arithmetic result is rounded to 53     *)
(* significant bits, ties to even, as the hardware does.                   *)
(***************************************************************************)
EXTENDS Integers, Sequences, FiniteSets, TLC

VARIABLES
    text, result,               \* parse_timestamp: its argument and its outcome
    milliseconds, formatted,    \* format_duration: its argument and its outcome
    exists, clip_ms,            \* the input file: is it there, its audio's length
    pc, duration, start_ms, end_ms, lastPrompt, lastInput, printed, prompts,
    exitCode,                   \* main
    t_pc, arg_start, arg_end, start_time, end_time, t_loaded, t_duration,
    loadCalls, exported, t_result   \* trim_audio

parseVars  == <<text, result>>
formatVars == <<milliseconds, formatted>>
fileVars   == <<exists, clip_ms>>
mainVars   == <<pc, duration, start_ms, end_ms, lastPrompt, lastInput, printed,
                prompts, exitCode>>
trimVars   == <<t_pc, arg_start, arg_end, start_time, end_time, t_loaded,
                t_duration, loadCalls, exported, t_result>>
vars       == <<parseVars, formatVars, fileVars, mainVars, trimVars>>

---------------------------------------------------------------------------
(* Characters and strings                                                  *)

Digits == {"0", "1", "2", "3", "4", "5", "6", "7", "8", "9"}

DigitVal(c) ==
    CASE c = "0" -> 0 [] c = "1" -> 1 [] c = "2" -> 2 [] c = "3" -> 3
      [] c = "4" -> 4 [] c = "5" -> 5 [] c = "6" -> 6 [] c = "7" -> 7
      [] c = "8" -> 8 [] c = "9" -> 9

DigitChar(d) ==
    CASE d = 0 -> "0" [] d = 1 -> "1" [] d = 2 -> "2" [] d = 3 -> "3"
      [] d = 4 -> "4" [] d = 5 -> "5" [] d = 6 -> "6" [] d = 7 -> "7"
      [] d = 8 -> "8" [] d = 9 -> "9"

\* str.strip(): whitespace removed at both ends
RECURSIVE LStrip(_)
LStrip(s) == IF s # <<>> /\ Head(s) = " " THEN LStrip(Tail(s)) ELSE s

RECURSIVE RStrip(_)
RStrip(s) ==
    IF s # <<>> /\ s[Len(s)] = " " THEN RStrip(SubSeq(s, 1, Len(s) - 1)) ELSE s

Strip(s) == LStrip(RStrip(s))

\* str.endswith('ms')
EndsWithMs(s) == Len(s) >= 2 /\ s[Len(s) - 1] = "m" /\ s[Len(s)] = "s"

\* ':' in s
HasColon(s) == \E i \in 1..Len(s) : s[i] = ":"

\* str.split(':')
RECURSIVE Split(_, _)
Split(s, cur) ==
    IF s = <<>> THEN <<cur>>
    ELSE IF Head(s) = ":" THEN <<cur>> \o Split(Tail(s), <<>>)
    ELSE Split(Tail(s), Append(cur, Head(s)))

AllDigits(s) == \A i \in 1..Len(s) : s[i] \in Digits

RECURSIVE DecValue(_)
DecValue(s) ==
    IF s = <<>> THEN 0
    ELSE 10 * DecValue(SubSeq(s, 1, Len(s) - 1)) + DigitVal(s[Len(s)])

RECURSIVE Pow10(_)
Pow10(k) == IF k = 0 THEN 1 ELSE 10 * Pow10(k - 1)

---------------------------------------------------------------------------
(* binary64 arithmetic                                                     *)

MantBits == 53

RECURSIVE BitLen(_)
BitLen(n) == IF n = 0 THEN 0 ELSE 1 + BitLen(n \div 2)

\* index of the first 1 in fr, less one (Len(fr) when there is none)
LeadingZeros(fr) ==
    IF \A i \in 1..Len(fr) : fr[i] = 0 THEN Len(fr)
    ELSE (CHOOSE i \in 1..Len(fr) : fr[i] = 1 /\ \A j \in 1..(i - 1) : fr[j] = 0) - 1

AnyOne(fr) == \E i \in 1..Len(fr) : fr[i] = 1

\* fr without its trailing zeros
DropZeros(fr) ==
    IF ~AnyOne(fr) THEN <<>>
    ELSE SubSeq(fr, 1, CHOOSE i \in 1..Len(fr) :
                           fr[i] = 1 /\ \A j \in (i + 1)..Len(fr) : fr[j] = 0)

Zeros(n) == [i \in 1..n |-> 0]

PadTo(fr, n) == fr \o Zeros(n - Len(fr))

\* fr + one unit in its last place; the carry out of the fraction goes to ip
IncBits(fr) ==
    IF \A i \in 1..Len(fr) : fr[i] = 1 THEN [bits |-> Zeros(Len(fr)), carry |-> 1]
    ELSE LET z == CHOOSE i \in 1..Len(fr) :
                      fr[i] = 0 /\ \A j \in (i + 1)..Len(fr) : fr[j] = 1
         IN  [bits |-> [i \in 1..Len(fr) |->
                           IF i < z THEN fr[i] ELSE IF i = z THEN 1 ELSE 0],
              carry |-> 0]

\* the exact value [ip, fr] rounded to the nearest binary64, ties to even
Round(x) ==
    LET keep == IF x.ip > 0 THEN MantBits - BitLen(x.ip)
                ELSE LeadingZeros(x.fr) + MantBits
    IN  IF Len(x.fr) <= keep THEN [ip |-> x.ip, fr |-> DropZeros(x.fr)]
        ELSE LET kept   == SubSeq(x.fr, 1, keep)
                 guard  == x.fr[keep + 1]
                 sticky == AnyOne(SubSeq(x.fr, keep + 2, Len(x.fr)))
                 odd    == IF keep = 0 THEN x.ip % 2 = 1 ELSE kept[keep] = 1
                 up     == guard = 1 /\ (sticky \/ odd)
                 inc    == IncBits(kept)
             IN  IF up THEN [ip |-> x.ip + inc.carry, fr |-> DropZeros(inc.bits)]
                 ELSE [ip |-> x.ip, fr |-> DropZeros(kept)]

\* 2^e mod d
RECURSIVE PowMod(_, _)
PowMod(e, d) ==
    IF e = 0 THEN 1 % d
    ELSE LET h == PowMod(e \div 2, d)
         IN  (((h * h) % d) * (IF e % 2 = 1 THEN 2 ELSE 1)) % d

\* the first n bits of the binary expansion of r / d (0 <= r < d), then one
\* more bit that is 1 iff the rest of the expansion is not zero
DivBits(r, d, n) ==
    [i \in 1..n |-> (2 * ((r * PowMod(i - 1, d)) % d)) \div d]
        \o <<IF (r * PowMod(n, d)) % d = 0 THEN 0 ELSE 1>>

RECURSIVE DivLeadingZeros(_, _)
DivLeadingZeros(r, d) ==
    IF r = 0 \/ 2 * r >= d THEN 0 ELSE 1 + DivLeadingZeros(2 * r, d)

\* n / d correctly rounded (n >= 0, d > 0): float division of two integers,
\* and also float() of the decimal literal n / 10^k
DivFloat(n, d) ==
    LET ip == n \div d
        r  == n % d
        k  == IF ip > 0 THEN MantBits - BitLen(ip)
              ELSE DivLeadingZeros(r, d) + MantBits
    IN  IF r = 0 THEN [ip |-> ip, fr |-> <<>>]
        ELSE Round([ip |-> ip, fr |-> DivBits(r, d, k + 1)])

\* fr * k + c units of the last place, exactly: the fraction bits and the
\* integer carried out (M[a, b, c] does the bits a..b, right half first)
MulBits(fr, k, c0) ==
    LET M[a \in Nat, b \in Nat, c \in Nat] ==
            IF a > b THEN [bits |-> <<>>, carry |-> c]
            ELSE IF a = b
                 THEN [bits |-> <<(fr[a] * k + c) % 2>>, carry |-> (fr[a] * k + c) \div 2]
            ELSE LET h  == (a + b) \div 2
                     lo == M[h + 1, b, c]
                     hi == M[a, h, lo.carry]
                 IN  [bits |-> hi.bits \o lo.bits, carry |-> hi.carry]
    IN  M[1, Len(fr), c0]

\* float * float where the second factor is the small integer k
MulFloat(x, k) ==
    LET m == MulBits(x.fr, k, 0)
    IN  Round([ip |-> x.ip * k + m.carry, fr |-> m.bits])

\* x + y of two equally long fractions: the bits and the carry into ip
AddBits(x, y) ==
    LET A[a \in Nat, b \in Nat, c \in Nat] ==
            IF a > b THEN [bits |-> <<>>, carry |-> c]
            ELSE IF a = b
                 THEN [bits |-> <<(x[a] + y[a] + c) % 2>>, carry |-> (x[a] + y[a] + c) \div 2]
            ELSE LET h  == (a + b) \div 2
                     lo == A[h + 1, b, c]
                     hi == A[a, h, lo.carry]
                 IN  [bits |-> hi.bits \o lo.bits, carry |-> hi.carry]
    IN  A[1, Len(x), 0]

\* x - y of two equally long fractions; borrow is what must come off ip
SubBits(x, y) ==
    LET S[a \in Nat, b \in Nat, c \in Nat] ==
            IF a > b THEN [bits |-> <<>>, borrow |-> c]
            ELSE IF a = b
                 THEN [bits |-> <<(x[a] - y[a] - c) % 2>>,
                       borrow |-> IF x[a] - y[a] - c < 0 THEN 1 ELSE 0]
            ELSE LET h  == (a + b) \div 2
                     lo == S[h + 1, b, c]
                     hi == S[a, h, lo.borrow]
                 IN  [bits |-> hi.bits \o lo.bits, borrow |-> hi.borrow]
    IN  S[1, Len(x), 0]

\* a < b for equally long fractions
LessBits(a, b) ==
    \E i \in 1..Len(a) : a[i] < b[i] /\ \A j \in 1..(i - 1) : a[j] = b[j]

\* signed floats carry neg; magnitudes are [ip, fr]
AddMag(x, y) ==
    LET n == IF Len(x.fr) > Len(y.fr) THEN Len(x.fr) ELSE Len(y.fr)
        s == AddBits(PadTo(x.fr, n), PadTo(y.fr, n))
    IN  Round([ip |-> x.ip + y.ip + s.carry, fr |-> s.bits])

\* x - y for magnitudes with x >= y
SubMag(x, y) ==
    LET n == IF Len(x.fr) > Len(y.fr) THEN Len(x.fr) ELSE Len(y.fr)
        s == SubBits(PadTo(x.fr, n), PadTo(y.fr, n))
    IN  Round([ip |-> x.ip - y.ip - s.borrow, fr |-> s.bits])

LessMag(x, y) ==
    LET n == IF Len(x.fr) > Len(y.fr) THEN Len(x.fr) ELSE Len(y.fr)
    IN  x.ip < y.ip \/ (x.ip = y.ip /\ LessBits(PadTo(x.fr, n), PadTo(y.fr, n)))

Mag(x) == [ip |-> x.ip, fr |-> x.fr]

Signed(neg, m) == [neg |-> neg, ip |-> m.ip, fr |-> m.fr]

\* float + float
FAdd(x, y) ==
    IF x.neg = y.neg THEN Signed(x.neg, AddMag(Mag(x), Mag(y)))
    ELSE IF LessMag(Mag(x), Mag(y)) THEN Signed(y.neg, SubMag(Mag(y), Mag(x)))
    ELSE IF LessMag(Mag(y), Mag(x)) THEN Signed(x.neg, SubMag(Mag(x), Mag(y)))
    ELSE Signed(FALSE, [ip |-> 0, fr |-> <<>>])

\* float * k for a small non-negative integer constant k
FMul(x, k) == Signed(x.neg, MulFloat(Mag(x), k))

\* int(float): truncation toward zero
FInt(x) == IF x.neg THEN 0 - x.ip ELSE x.ip

---------------------------------------------------------------------------
(* int() and float() of a text                                             *)

IsSign(c) == c = "-" \/ c = "+"

Unsigned(s) == IF s # <<>> /\ IsSign(Head(s)) THEN Tail(s) ELSE s

IsNeg(s) == s # <<>> /\ Head(s) = "-"

\* int(s): optional blanks around an optionally signed run of digits
PyInt(str) ==
    LET s == Strip(str)
        u == Unsigned(s)
    IN  IF u # <<>> /\ AllDigits(u)
        THEN [ok |-> TRUE, val |-> IF IsNeg(s) THEN 0 - DecValue(u) ELSE DecValue(u)]
        ELSE [ok |-> FALSE, val |-> 0]

DotCount(s) == Cardinality({i \in 1..Len(s) : s[i] = "."})

NoDots(s) == SelectSeq(s, LAMBDA c : c # ".")

\* the digits after the decimal point
RECURSIVE AfterDot(_)
AfterDot(s) ==
    IF s = <<>> THEN <<>> ELSE IF Head(s) = "." THEN Tail(s) ELSE AfterDot(Tail(s))

\* float(s): optional blanks around an optionally signed decimal literal with
\* at least one digit and at most one point; the value is the binary64
\* nearest to the literal.  (Exponents, "inf", "nan" and underscores are not
\* modelled: no input of the model holds an e, i, n, f or _.)
PyFloat(str) ==
    LET s == Strip(str)
        u == Unsigned(s)
        d == NoDots(u)
    IN  IF d # <<>> /\ AllDigits(d) /\ DotCount(u) <= 1
        THEN [ok |-> TRUE,
              val |-> Signed(IsNeg(s), DivFloat(DecValue(d), Pow10(Len(AfterDot(u)))))]
        ELSE [ok |-> FALSE, val |-> Signed(FALSE, [ip |-> 0, fr |-> <<>>])]

---------------------------------------------------------------------------
(* parse_timestamp                                                         *)

Returned(v) == [kind |-> "int", val |-> v]
ReturnedNone == [kind |-> "None", val |-> 0]
ValueError == [kind |-> "ValueError", val |-> 0]
Pending == [kind |-> "pending", val |-> 0]

\* the MM:SS branch
ParseMinSec(parts) ==
    LET minutes == PyFloat(parts[1])
        seconds == PyFloat(parts[2])
    IN  IF minutes.ok /\ seconds.ok
        THEN Returned(FInt(FMul(FAdd(FMul(minutes.val, 60), seconds.val), 1000)))
        ELSE ValueError

\* the HH:MM:SS branch
ParseHourMinSec(parts) ==
    LET hours   == PyFloat(parts[1])
        minutes == PyFloat(parts[2])
        seconds == PyFloat(parts[3])
    IN  IF hours.ok /\ minutes.ok /\ seconds.ok
        THEN Returned(FInt(FMul(FAdd(FAdd(FMul(hours.val, 3600),
                                          FMul(minutes.val, 60)),
                                     seconds.val), 1000)))
        ELSE ValueError

\* the "ms" branch
ParseMillis(s) ==
    LET p == PyInt(SubSeq(s, 1, Len(s) - 2))
    IN  IF p.ok THEN Returned(p.val) ELSE ValueError

\* the seconds-only branch
ParseSeconds(s) ==
    LET f == PyFloat(s)
    IN  IF f.ok THEN Returned(FInt(FMul(f.val, 1000))) ELSE ValueError

\* the branch taken when the text holds a colon; a segment count other than
\* 2 or 3 leaves the function by its end, which returns None
ParseColon(s) ==
    LET parts == Split(s, <<>>)
    IN  IF Len(parts) = 2 THEN ParseMinSec(parts)
        ELSE IF Len(parts) = 3 THEN ParseHourMinSec(parts)
        ELSE ReturnedNone

\* parse_timestamp with the colon test made before the "ms" test
ParseColonFirst(timestamp_str) ==
    LET s == Strip(timestamp_str)
    IN  IF HasColon(s) THEN ParseColon(s)
        ELSE IF EndsWithMs(s) THEN ParseMillis(s)
        ELSE ParseSeconds(s)

parse_timestamp(timestamp_str) ==
    LET s == Strip(timestamp_str)
    IN  IF EndsWithMs(s) THEN ParseMillis(s)
        ELSE IF HasColon(s) THEN ParseColon(s)
        ELSE ParseSeconds(s)

---------------------------------------------------------------------------
(* format_duration                                                         *)

RECURSIVE IntStr(_)
IntStr(n) ==
    IF n < 10 THEN <<DigitChar(n)>> ELSE IntStr(n \div 10) \o <<DigitChar(n % 10)>>

\* the format code 02d
ZeroPad2(n) == IF n < 10 THEN <<"0">> \o IntStr(n) ELSE IntStr(n)

\* x rounded to hundredths as the format code .2f does: the exact binary
\* value to the nearest hundredth, ties to even
Hundredths(x) ==
    LET m  == MulBits(x.fr, 100, 0)
        c  == x.ip * 100 + m.carry
        up == m.bits # <<>> /\ Head(m.bits) = 1
              /\ (AnyOne(Tail(m.bits)) \/ c % 2 = 1)
    IN  IF up THEN c + 1 ELSE c

\* the format code 05.2f
Format052f(x) ==
    LET c == Hundredths(x)
    IN  ZeroPad2(c \div 100) \o <<".">> \o ZeroPad2(c % 100)

format_duration(ms) ==
    LET seconds == DivFloat(ms, 1000)
        hours   == seconds.ip \div 3600
        minutes == (seconds.ip % 3600) \div 60
        secs    == [ip |-> seconds.ip % 60, fr |-> seconds.fr]
    IN  IF hours > 0
        THEN ZeroPad2(hours) \o <<":">> \o ZeroPad2(minutes) \o <<":">> \o Format052f(secs)
        ELSE ZeroPad2(minutes) \o <<":">> \o Format052f(secs)

---------------------------------------------------------------------------
(* Inputs                                                                  *)

MaxSegs  == 4      \* colon-separated segments in a generated text
MaxWhole == 2      \* whole seconds in a generated decimal text
MaxSmall == 130    \* format_duration is tried on every 0..MaxSmall
MaxHours == 1      \* and around every minute's end up to this many hours
MaxEdge  == 6      \* ... within this many milliseconds of it
MaxClip  == 3      \* clip lengths given to trim_audio alone
MaxOver  == 2      \* how far its bounds may lie outside the clip
MaxPrompts == 3    \* timestamp prompts answered in one run of main

\* segments the generated colon texts are made of
Segments == { <<>>, <<"1">>, <<"3", "0">>, <<"1", ".", "5">>, <<"-", "2">>, <<"x">> }

RECURSIVE Join(_)
Join(parts) ==
    IF Len(parts) = 1 THEN parts[1]
    ELSE parts[1] \o <<":">> \o Join(Tail(parts))

SegmentLists == UNION {[1..n -> Segments] : n \in 1..MaxSegs}

ColonTexts == {Join(p) : p \in SegmentLists}

Pad3(f) == <<DigitChar(f \div 100), DigitChar((f \div 10) % 10), DigitChar(f % 10)>>

\* every w.fff with w in 0..MaxWhole, also negated
DecimalTexts ==
    LET pos == {IntStr(w) \o <<".">> \o Pad3(f) : w \in 0..MaxWhole, f \in 0..999}
    IN  pos \cup {<<"-">> \o t : t \in pos}

Examples ==
    { <<"5", "0", "0", "0", "m", "s">>, <<"1", ":", "3", "0">>,
      <<"0", ":", "0", "1", ":", "3", "0">>, <<"9", "0">>, <<"9", "0", ".", "5">>,
      <<"a", "b", "c">>, <<"1", ":", "2", ":", "3", ":", "4">>,
      <<"2", "0", "0", "0", "0", "0", "0">>, <<"5", " ", "m", "s">>,
      <<"+", "7">>, <<".", "5">>, <<"5", ".">>, <<"1", ".", "2", ".", "3">>,
      <<"0", ".", "0", "0", "1", "5">>, <<"-", "0", ".", "0", "0", "1", "5">>,
      <<"0", ":", "1", ".", "0", "0", "1">>, <<"1", ":", "3", "0", ".", "5">>,
      <<"1", ":", "0", "0", ":", "0", "0", ".", "0", "0", "1">> }

Texts ==
    LET plain == ColonTexts \cup DecimalTexts \cup Examples
        withMs == plain \cup {t \o <<"m", "s">> : t \in ColonTexts \cup Examples}
    IN  withMs \cup {<<" ">> \o t \o <<" ">> : t \in ColonTexts \cup Examples}

FormatInputs ==
    (0..MaxSmall)
    \cup {h * 3600000 + m * 60000 + 60000 - e :
              h \in 0..MaxHours, m \in {0, 1, 59}, e \in 0..MaxEdge}
    \cup {h * 3600000 + m * 60000 + s * 1000 + f :
              h \in 0..MaxHours, m \in {0, 1, 59}, s \in {1, 30},
              f \in {0, 125, 375, 500, 625, 875}}

\* what the user may type at a timestamp prompt
PromptTexts ==
    { <<>>, <<" ">>, <<"0">>, <<"1">>, <<"2">>, <<"1", ".", "0", "0", "1">>,
      <<"0", ":", "0", "1">>, <<"0", ":", "0", ":", "0", "2">>,
      <<"1", "5", "0", "0", "m", "s">>, <<"3", "0", "0", "0", "m", "s">>,
      <<"-", "1">>, <<"9">>, <<"a", "b", "c">>, <<"1", ":", "x">>,
      <<"1", ":", "2", ":", "3", ":", "4">> }

ClipLengths == {0, 1, 1500, 3000}

---------------------------------------------------------------------------
(* States in which a part of the program is not running                    *)

NotParsing ==
    /\ text = <<>>
    /\ result = Pending

NotFormatting ==
    /\ milliseconds = 0
    /\ formatted = <<>>

MainNotRunning ==
    /\ pc = "none"
    /\ duration = 0
    /\ start_ms = 0
    /\ end_ms = 0
    /\ lastPrompt = "none"
    /\ lastInput = <<>>
    /\ printed = "none"
    /\ prompts = 0
    /\ exitCode = -1

TrimLocals ==
    /\ arg_start = 0
    /\ arg_end = 0
    /\ start_time = 0
    /\ end_time = 0
    /\ t_loaded = FALSE
    /\ t_duration = 0
    /\ loadCalls = 0
    /\ exported = <<>>
    /\ t_result = FALSE

---------------------------------------------------------------------------
(* parse_timestamp and format_duration applied to an input                 *)

InitParse ==
    /\ text \in Texts
    /\ result = Pending
    /\ NotFormatting
    /\ exists = TRUE /\ clip_ms = 0
    /\ MainNotRunning
    /\ t_pc = "idle" /\ TrimLocals

Parse ==
    /\ result = Pending
    /\ pc = "none"
    /\ result' = parse_timestamp(text)
    /\ UNCHANGED <<text, formatVars, fileVars, mainVars, trimVars>>

SpecParse == InitParse /\ [][Parse]_vars

InitFormat ==
    /\ milliseconds \in FormatInputs
    /\ formatted = <<>>
    /\ NotParsing
    /\ exists = TRUE /\ clip_ms = 0
    /\ MainNotRunning
    /\ t_pc = "idle" /\ TrimLocals

Format ==
    /\ formatted = <<>>
    /\ pc = "none"
    /\ formatted' = format_duration(milliseconds)
    /\ UNCHANGED <<milliseconds, parseVars, fileVars, mainVars, trimVars>>

SpecFormat == InitFormat /\ [][Format]_vars

---------------------------------------------------------------------------
(* trim_audio                                                              *)

\* the clamping assignments left out
NoClampStart(start) == start

NoClampEnd(end, dur) == end

\* the ordering check with > for >=
BadOrderStrict(start, end) == start > end

\* the two clamping assignments
ClampStart(start) == IF start < 0 THEN 0 ELSE start

ClampEnd(end, dur) == IF end > dur THEN dur ELSE end

\* the ordering check raises when this holds
BadOrder(start, end) == start >= end

\* len(audio[start:end]) for 0 <= start and an audio of dur milliseconds
SliceLen(dur, start, end) ==
    LET e == IF end > dur THEN dur ELSE end
        b == IF start > dur THEN dur ELSE start
    IN  IF e > b THEN e - b ELSE 0

\* AudioSegment.from_file: the one load, which may raise
TrimLoad ==
    /\ t_pc = "load"
    /\ loadCalls' = loadCalls + 1
    /\ \E ok \in BOOLEAN :
          IF ok
          THEN /\ t_loaded' = TRUE
               /\ t_duration' = clip_ms
               /\ t_pc' = "validate"
               /\ UNCHANGED <<t_result, printed>>
          ELSE /\ t_pc' = "done"
               /\ t_result' = FALSE
               /\ printed' = "Error"
               /\ UNCHANGED <<t_loaded, t_duration>>
    /\ UNCHANGED <<arg_start, arg_end, start_time, end_time, exported>>
    /\ UNCHANGED <<parseVars, formatVars, fileVars>>
    /\ UNCHANGED <<pc, duration, start_ms, end_ms, lastPrompt, lastInput, prompts, exitCode>>

\* the clamping and the ordering check
TrimValidate ==
    /\ t_pc = "validate"
    /\ start_time' = ClampStart(start_time)
    /\ end_time' = ClampEnd(end_time, t_duration)
    /\ IF BadOrder(start_time', end_time')
       THEN /\ t_pc' = "done"
            /\ t_result' = FALSE
            /\ printed' = "Error"
       ELSE /\ t_pc' = "export"
            /\ UNCHANGED <<t_result, printed>>
    /\ UNCHANGED <<arg_start, arg_end, t_loaded, t_duration, loadCalls, exported>>
    /\ UNCHANGED <<parseVars, formatVars, fileVars>>
    /\ UNCHANGED <<pc, duration, start_ms, end_ms, lastPrompt, lastInput, prompts, exitCode>>

\* the slice and its export, which may raise
TrimExport ==
    /\ t_pc = "export"
    /\ exported' = Append(exported,
                          [from |-> start_time, to |-> end_time,
                           len |-> SliceLen(t_duration, start_time, end_time)])
    /\ \E ok \in BOOLEAN :
          /\ t_result' = ok
          /\ printed' = IF ok THEN "Successfully created" ELSE "Error"
    /\ t_pc' = "done"
    /\ UNCHANGED <<arg_start, arg_end, start_time, end_time, t_loaded, t_duration, loadCalls>>
    /\ UNCHANGED <<parseVars, formatVars, fileVars>>
    /\ UNCHANGED <<pc, duration, start_ms, end_ms, lastPrompt, lastInput, prompts, exitCode>>

TrimNext == TrimLoad \/ TrimValidate \/ TrimExport

\* trim_audio called on its own with any bounds, inside and outside the clip
InitTrim ==
    /\ NotParsing /\ NotFormatting
    /\ exists = TRUE
    /\ \/ /\ clip_ms \in 0..MaxClip
          /\ arg_start \in (0 - MaxOver)..(MaxClip + MaxOver)
          /\ arg_end \in (0 - MaxOver)..(MaxClip + MaxOver)
       \/ /\ clip_ms = 10000
          /\ arg_start \in {-500, 0, 2000, 8000}
          /\ arg_end \in {2000, 8000, 10000, 12000}
    /\ start_time = arg_start
    /\ end_time = arg_end
    /\ t_pc = "load"
    /\ t_loaded = FALSE /\ t_duration = 0 /\ loadCalls = 0
    /\ exported = <<>> /\ t_result = FALSE
    /\ MainNotRunning

SpecTrim == InitTrim /\ [][TrimNext]_vars

---------------------------------------------------------------------------
(* main                                                                    *)

\* sys.exit(code), and the interpreter's exit after an uncaught exception
Exit(code, message) ==
    /\ pc' = "exit"
    /\ exitCode' = code
    /\ printed' = message

\* os.path.exists(input_file)
CheckExists ==
    /\ pc = "exists"
    /\ IF exists
       THEN pc' = "load" /\ UNCHANGED <<exitCode, printed>>
       ELSE Exit(1, "not found")
    /\ UNCHANGED <<duration, start_ms, end_ms, lastPrompt, lastInput, prompts>>
    /\ UNCHANGED <<parseVars, formatVars, fileVars, trimVars>>

\* the load that finds the duration
MainLoad ==
    /\ pc = "load"
    /\ \E ok \in BOOLEAN :
          IF ok
          THEN /\ duration' = clip_ms
               /\ pc' = "start"
               /\ printed' = "Total duration"
               /\ UNCHANGED exitCode
          ELSE /\ Exit(1, "Error loading audio file")
               /\ UNCHANGED duration
    /\ UNCHANGED <<start_ms, end_ms, lastPrompt, lastInput, prompts>>
    /\ UNCHANGED <<parseVars, formatVars, fileVars, trimVars>>

\* one pass of the start-timestamp loop.  A None from parse_timestamp is
\* assigned to start_ms and makes the comparison with 0 raise TypeError, which
\* the loop does not catch: the interpreter ends the process with code 1
\* (start_ms, an integer here, is left as it was).
StartPrompt ==
    /\ pc = "start"
    /\ prompts < MaxPrompts
    /\ prompts' = prompts + 1
    /\ lastPrompt' = "start"
    /\ \E input \in PromptTexts :
          LET start_input == Strip(input)
              r == parse_timestamp(start_input)
          IN  /\ lastInput' = input
              /\ IF start_input = <<>>
                 THEN /\ start_ms' = 0
                      /\ pc' = "end"
                      /\ UNCHANGED <<printed, exitCode>>
                 ELSE IF r.kind = "ValueError"
                 THEN /\ printed' = "Invalid timestamp format"
                      /\ UNCHANGED <<pc, start_ms, exitCode>>
                 ELSE IF r.kind = "None"
                 THEN /\ Exit(1, "Traceback")
                      /\ UNCHANGED start_ms
                 ELSE /\ start_ms' = r.val
                      /\ IF r.val < 0 \/ r.val >= duration
                         THEN /\ printed' = "Start time must be between"
                              /\ UNCHANGED <<pc, exitCode>>
                         ELSE /\ pc' = "end"
                              /\ UNCHANGED <<printed, exitCode>>
    /\ UNCHANGED <<duration, end_ms>>
    /\ UNCHANGED <<parseVars, formatVars, fileVars, trimVars>>

\* one pass of the end-timestamp loop
EndPrompt ==
    /\ pc = "end"
    /\ prompts < MaxPrompts
    /\ prompts' = prompts + 1
    /\ lastPrompt' = "end"
    /\ \E input \in PromptTexts :
          LET end_input == Strip(input)
              r == parse_timestamp(end_input)
          IN  /\ lastInput' = input
              /\ IF end_input = <<>>
                 THEN /\ end_ms' = duration
                      /\ pc' = "trim"
                      /\ UNCHANGED <<printed, exitCode>>
                 ELSE IF r.kind = "ValueError"
                 THEN /\ printed' = "Invalid timestamp format"
                      /\ UNCHANGED <<pc, end_ms, exitCode>>
                 ELSE IF r.kind = "None"
                 THEN /\ Exit(1, "Traceback")
                      /\ UNCHANGED end_ms
                 ELSE /\ end_ms' = r.val
                      /\ IF r.val <= start_ms
                         THEN /\ printed' = "End time must be after start time"
                              /\ UNCHANGED <<pc, exitCode>>
                         ELSE IF r.val > duration
                         THEN /\ printed' = "End time cannot exceed file duration"
                              /\ UNCHANGED <<pc, exitCode>>
                         ELSE /\ pc' = "trim"
                              /\ UNCHANGED <<printed, exitCode>>
    /\ UNCHANGED <<duration, start_ms>>
    /\ UNCHANGED <<parseVars, formatVars, fileVars, trimVars>>

\* the output file name is asked for and completed, which touches nothing
\* modelled here, and trim_audio(input_file, start_ms, end_ms, ...) is called
CallTrim ==
    /\ pc = "trim"
    /\ t_pc = "idle"
    /\ pc' = "in trim_audio"
    /\ t_pc' = "load"
    /\ arg_start' = start_ms /\ arg_end' = end_ms
    /\ start_time' = start_ms /\ end_time' = end_ms
    /\ UNCHANGED <<t_loaded, t_duration, loadCalls, exported, t_result>>
    /\ UNCHANGED <<duration, start_ms, end_ms, lastPrompt, lastInput, printed,
                   prompts, exitCode>>
    /\ UNCHANGED <<parseVars, formatVars, fileVars>>

\* main ignoring trim_audio's result
TrimReturnIgnored ==
    /\ pc = "in trim_audio"
    /\ t_pc = "done"
    /\ Exit(0, "File saved as")
    /\ UNCHANGED <<duration, start_ms, end_ms, lastPrompt, lastInput, prompts>>
    /\ UNCHANGED <<parseVars, formatVars, fileVars, trimVars>>

\* what main does with trim_audio's result: falling off the end of main
\* ends the process with code 0
TrimReturn ==
    /\ pc = "in trim_audio"
    /\ t_pc = "done"
    /\ IF t_result THEN Exit(0, "File saved as") ELSE Exit(1, "Failed to trim audio file")
    /\ UNCHANGED <<duration, start_ms, end_ms, lastPrompt, lastInput, prompts>>
    /\ UNCHANGED <<parseVars, formatVars, fileVars, trimVars>>

Init ==
    /\ NotParsing /\ NotFormatting
    /\ exists \in BOOLEAN
    /\ clip_ms \in ClipLengths
    /\ pc = "exists"
    /\ duration = 0 /\ start_ms = 0 /\ end_ms = 0
    /\ lastPrompt = "none" /\ lastInput = <<>> /\ printed = "none"
    /\ prompts = 0
    /\ exitCode = -1
    /\ t_pc = "idle" /\ TrimLocals

Next ==
    \/ CheckExists
    \/ MainLoad
    \/ StartPrompt
    \/ EndPrompt
    \/ CallTrim
    \/ TrimLoad
    \/ TrimValidate
    \/ TrimExport
    \/ TrimReturn

Spec == Init /\ [][Next]_vars

---------------------------------------------------------------------------
(* The timestamp grammar as the specification words it                     *)

MsPrefix(s) == SubSeq(s, 1, Len(s) - 2)

IsInteger(s) == PyInt(s).ok

IsNumber(s) == PyFloat(s).ok

\* the text has one of the accepted shapes: an integer followed by "ms",
\* two or three numbers separated by colons, or one number
AcceptedShape(t) ==
    LET s == Strip(t)
        parts == Split(s, <<>>)
    IN  IF EndsWithMs(s) THEN IsInteger(MsPrefix(s))
        ELSE IF HasColon(s)
             THEN Len(parts) \in {2, 3} /\ \A i \in 1..Len(parts) : IsNumber(parts[i])
        ELSE IsNumber(s)

\* a number's digits as an integer and the count of its decimals
Numerator(seg) ==
    LET s == Strip(seg)
        n == DecValue(NoDots(Unsigned(s)))
    IN  IF IsNeg(s) THEN 0 - n ELSE n

Decimals(seg) == Len(AfterDot(Unsigned(Strip(seg))))

Max(S) == CHOOSE x \in S : \A y \in S : y <= x

\* seconds in an hour, a minute, a second: the weight of the i-th of n parts
Weight(i, n) == IF i = n THEN 1 ELSE IF i = n - 1 THEN 60 ELSE 3600

RECURSIVE SumTo(_, _)
SumTo(f, n) == IF n = 0 THEN 0 ELSE f[n] + SumTo(f, n - 1)

\* the milliseconds a list of numbers denotes, computed exactly in integers
\* and truncated toward zero
ExactMillis(parts) ==
    LET n == Len(parts)
        K == Max({Decimals(parts[i]) : i \in 1..n})
        scaled == [i \in 1..n |->
                      Numerator(parts[i]) * Weight(i, n) * Pow10(K - Decimals(parts[i]))]
        num == SumTo(scaled, n) * 1000
    IN  IF num < 0 THEN 0 - ((0 - num) \div Pow10(K)) ELSE num \div Pow10(K)

---------------------------------------------------------------------------
(* Claims about parse_timestamp, under SpecParse                           *)

\* C1: for every text that has none of the accepted shapes, parse_timestamp
\* raises ValueError and returns no value of any kind.
C1_RejectsUnaccepted ==
    (result # Pending /\ ~AcceptedShape(text)) => result = ValueError

\* C2: the grammars are applied in the order ms suffix, colon, bare seconds.
\* A text ending in "ms" gives its integer prefix unscaled, or ValueError when
\* the prefix is not an integer (a colon or a point in it included); a text
\* with a colon and no "ms" is never read by the other two rules: it gives a
\* value only when it has two or three numeric segments, and then the weighted
\* sum; a text with neither is read as seconds, its value times 1000.
C2_GrammarPriority ==
    result # Pending =>
        LET s == Strip(text)
            parts == Split(s, <<>>)
        IN  /\ EndsWithMs(s) =>
                  /\ IsInteger(MsPrefix(s)) => result = Returned(Numerator(MsPrefix(s)))
                  /\ ~IsInteger(MsPrefix(s)) => result = ValueError
                  /\ (HasColon(s) \/ DotCount(s) > 0) => result = ValueError
            /\ (~EndsWithMs(s) /\ HasColon(s)) =>
                  /\ result.kind = "int" =>
                        Len(parts) \in {2, 3} /\ \A i \in 1..Len(parts) : IsNumber(parts[i])
                  /\ (\A i \in 1..Len(parts) : parts[i] # <<>> /\ AllDigits(parts[i]))
                        /\ Len(parts) \in {2, 3}
                        => result = Returned(ExactMillis(parts))
                  /\ (\E i \in 1..Len(parts) : ~IsNumber(parts[i])) /\ Len(parts) \in {2, 3}
                        => result = ValueError
            /\ (~EndsWithMs(s) /\ ~HasColon(s)) =>
                  /\ IsNumber(s) <=> result.kind = "int"
                  /\ ~IsNumber(s) <=> result = ValueError
                  /\ (s # <<>> /\ AllDigits(s)) => result = Returned(DecValue(s) * 1000)

\* a text ending in "ms" whose prefix holds a colon was refused by the ms rule
C2_Witness ==
    /\ result = ValueError
    /\ EndsWithMs(Strip(text))
    /\ Len(Split(Strip(text), <<>>)) = 2
    /\ IsNumber(Split(Strip(text), <<>>)[1])

\* C3: a colon text with two or three numeric segments, and a bare-seconds
\* text, gives the seconds it denotes times 1000, truncated toward zero.
C3_ExactTruncation ==
    LET s == Strip(text)
        parts == Split(s, <<>>)
    IN  (result # Pending /\ ~EndsWithMs(s) /\ AcceptedShape(text))
            => result = Returned(ExactMillis(parts))

---------------------------------------------------------------------------
(* Claim about format_duration, under SpecFormat                           *)

\* C7: for a non-negative ms the hours field is ms div 3600000, present and
\* zero-padded iff it is positive, the minutes field is the zero-padded
\* (ms mod 3600000) div 60000, and the seconds field renders the remaining
\* ms mod 60000 milliseconds as SS.ss with a value from 00.00 to 59.99.
C7_Fields ==
    formatted # <<>> =>
        LET h    == milliseconds \div 3600000
            m    == (milliseconds % 3600000) \div 60000
            rest == milliseconds % 60000
            n    == Len(formatted)
            head == (IF h > 0 THEN ZeroPad2(h) \o <<":">> ELSE <<>>) \o ZeroPad2(m) \o <<":">>
            secs == SubSeq(formatted, n - 4, n)
            c    == DecValue(NoDots(secs))
        IN  /\ n = Len(head) + 5
            /\ SubSeq(formatted, 1, n - 5) = head
            /\ secs[3] = "." /\ AllDigits(NoDots(secs))
            /\ c <= 5999
            /\ 10 * c - rest < 10 /\ rest - 10 * c < 10

---------------------------------------------------------------------------
(* Claims about trim_audio, under SpecTrim                                 *)

\* what a call of trim_audio comes to, given whether the load and the export
\* succeed
TrimOutcome(loads, exports, dur, start, end) ==
    LET s == ClampStart(start)
        e == ClampEnd(end, dur)
    IN  IF ~loads \/ BadOrder(s, e) THEN [result |-> FALSE, exported |-> <<>>]
        ELSE [result |-> exports,
              exported |-> <<[from |-> s, to |-> e, len |-> SliceLen(dur, s, e)]>>]

ClaimStart == IF arg_start < 0 THEN 0 ELSE arg_start

ClaimEnd == IF arg_end > clip_ms THEN clip_ms ELSE arg_end

\* C4: a call with a start below 0 ends as the call with start 0 does, and a
\* call with an end above the duration as the call with the duration as end:
\* the same result and the same exported range.
C4_ClampEquivalence ==
    t_pc = "done" =>
        LET got == [result |-> t_result, exported |-> exported]
        IN  /\ got = TrimOutcome(t_loaded, t_result, clip_ms, ClaimStart, arg_end)
            /\ got = TrimOutcome(t_loaded, t_result, clip_ms, arg_start, ClaimEnd)

\* a call with both bounds outside the clip has exported
C4_Witness ==
    /\ t_pc = "done"
    /\ arg_start < 0 /\ arg_end > clip_ms
    /\ t_result /\ exported # <<>>

\* C5: trim_audio returns failure and never exports when the load fails or
\* the clamped start is not below the clamped end; the load is attempted
\* once, never again, and export is invoked at most once and only after a
\* load that succeeded and an ordering check that passed.
C5_FailureIsTerminal ==
    /\ loadCalls <= 1
    /\ Len(exported) <= 1
    /\ t_pc # "load" => loadCalls = 1
    /\ (t_pc = "done" /\ (~t_loaded \/ ClaimStart >= ClaimEnd))
           => ~t_result /\ exported = <<>>
    /\ (t_pc = "export" \/ exported # <<>>) => t_loaded /\ ClaimStart < ClaimEnd
    /\ t_result => exported # <<>>

\* a loaded clip whose bounds fail the ordering check
C5_Witness ==
    /\ t_pc = "done"
    /\ t_loaded
    /\ arg_start < arg_end /\ ClaimStart >= ClaimEnd
    /\ ~t_result /\ exported = <<>>

\* C6: whenever the export call is reached the exported range is [s, e) with
\* s = max(0, start), e = min(end, D) and 0 <= s < e <= D, and the exported
\* clip lasts e - s.
C6_ExportedRange ==
    /\ t_pc = "export" =>
           /\ start_time = ClaimStart /\ end_time = ClaimEnd
           /\ 0 <= start_time /\ start_time < end_time /\ end_time <= clip_ms
    /\ \A i \in 1..Len(exported) :
           /\ exported[i].from = ClaimStart
           /\ exported[i].to = ClaimEnd
           /\ 0 <= ClaimStart /\ ClaimStart < ClaimEnd /\ ClaimEnd <= clip_ms
           /\ exported[i].len = ClaimEnd - ClaimStart

\* [2000, 8000) of a ten-second clip came out 6000 ms long
C6_Witness ==
    /\ clip_ms = 10000
    /\ arg_start = 2000 /\ arg_end = 8000
    /\ exported = <<[from |-> 2000, to |-> 8000, len |-> 6000]>>

---------------------------------------------------------------------------
(* Claims about main, under Spec                                           *)

\* C8: the process ends with code 0 only when trim_audio returned success;
\* it ends with a non-zero code when the input path does not exist, when the
\* file fails to decode, and when trim_audio returns failure, in the first
\* two cases before any timestamp prompt and before trim_audio is called.
C8_ExitCodes ==
    /\ pc = "exit" <=> exitCode # -1
    /\ exitCode = 0 => t_pc = "done" /\ t_result
    /\ (~exists /\ pc # "exists") =>
           pc = "exit" /\ exitCode > 0 /\ prompts = 0 /\ t_pc = "idle"
    /\ printed = "Error loading audio file" =>
           pc = "exit" /\ exitCode > 0 /\ prompts = 0 /\ t_pc = "idle"
    /\ (pc = "exit" /\ t_pc = "done" /\ ~t_result) => exitCode > 0

\* the run ended after trim_audio returned failure
C8_Witness ==
    /\ pc = "exit"
    /\ t_pc = "done" /\ ~t_result
    /\ printed = "Failed to trim audio file"
    /\ exitCode = 1

\* C9: a timestamp input that is not a valid timestamp is answered with a
\* message and the same prompt again; it never ends the program and is never
\* taken as the start or the end.
C9_RepromptsOnInvalid ==
    (lastPrompt \in {"start", "end"} /\ Strip(lastInput) # <<>>
         /\ ~AcceptedShape(lastInput))
        => /\ pc = lastPrompt
           /\ printed = "Invalid timestamp format"
           /\ exitCode = -1

\* C10: whenever main calls trim_audio the chosen bounds satisfy
\* 0 <= start_ms < D and start_ms < end_ms <= D, so that trim_audio's
\* clamping leaves them alone and its ordering check passes.
C10_ChosenBoundsValid ==
    /\ t_pc # "idle" =>
           /\ 0 <= start_ms /\ start_ms < duration
           /\ start_ms < end_ms /\ end_ms <= duration
    /\ (t_pc \in {"export", "done"} /\ t_loaded) =>
           /\ start_time = start_ms /\ end_time = end_ms
           /\ exported # <<>> \/ t_pc = "export"

=============================================================================
